---- MODULE Spec2Model ----
(***************************************************************************)
(* Model of migration_verifier.py: the task normalizer (normalize_tasks),  *)
(* the graph renderer (create_dependency_graph), the per-environment loop  *)
(* (generate_dependency_graphs with get_all_serialized_dags and            *)
(* get_dag_tasks), the differ (compare_dag_graphs) and main.               *)
(*                                                                         *)
(* A task record is a Python dict: a function whose DOMAIN is a subset of  *)
(* {"task_id", "downstream_task_ids"}; a missing key is a missing domain   *)
(* element.  A list is a sequence.  A graph collection is a dict from      *)
(* workflow id to a list of rendered lines; lines are real strings built   *)
(* by concatenation.                                                       *)
(***************************************************************************)
EXTENDS Integers, Sequences, FiniteSets, TLC

VARIABLES
    pc,           \* position of the running program
    arg,          \* the value of the list object when normalize_tasks was called
    tasks,        \* the caller's list object (its dicts are mutated in place)
    ret,          \* value returned by normalize_tasks
    graph,        \* value returned by create_dependency_graph
    graphs1,      \* first argument of compare_dag_graphs / graphs_env1 of main
    graphs2,      \* second argument of compare_dag_graphs / graphs_env2 of main
    report,       \* the report dict of compare_dag_graphs
    env,          \* environment main is generating graphs for (1 or 2)
    dag_files,    \* list returned by get_all_serialized_dags (one entry per dag id)
    idx,          \* number of dag files the loop of generate_dependency_graphs has consumed
    dag_graphs,   \* the dict the loop of generate_dependency_graphs is filling
    graph_files,  \* per environment, the graph files written under graph_output_dir
    printed,      \* the lines printed so far (as a set)
    report_file   \* content written by write_report

vars == <<pc, arg, tasks, ret, graph, graphs1, graphs2, report, env, dag_files,
          idx, dag_graphs, graph_files, printed, report_file>>

-----------------------------------------------------------------------------
(* Bounds of the model. *)

\* longest task list given to normalize_tasks
MaxTasks == 2
\* longest downstream_task_ids list of a task
MaxDown == 2
\* number of workflow ids the collections given to compare_dag_graphs draw from
MaxDags == 3
\* number of workflows the dag listing of an environment can hold
MaxListed == 2

-----------------------------------------------------------------------------
(* Strings and their order. *)

\* code points of the identifiers the model uses (Python compares str by code point)
Chars(s) ==
    CASE s = "a" -> <<97>>
      [] s = "ab" -> <<97, 98>>
      [] s = "b" -> <<98>>
      [] s = "c" -> <<99>>

\* s < t for Python strings: lexicographic on code points, a proper prefix is smaller
LexLess(s, t) ==
    \E k \in 1..(Len(t)) :
        /\ \A j \in 1..(k - 1) : j <= Len(s) /\ s[j] = t[j]
        /\ k - 1 <= Len(s)
        /\ (k = Len(s) + 1 \/ (k <= Len(s) /\ s[k] < t[k]))

StrLess(s, t) == LexLess(Chars(s), Chars(t))

\* a sort that is not stable: equal keys come out in reverse input order
UnstableRank(keys, i) ==
    1 + Cardinality({j \in DOMAIN keys :
            \/ LexLess(Chars(keys[j]), Chars(keys[i]))
            \/ (keys[j] = keys[i] /\ j > i)})

\* the position each element of a list takes under Python's sorted(): a stable
\* sort on the keys (equal keys keep their input order)
StableRank(keys, i) ==
    1 + Cardinality({j \in DOMAIN keys :
            \/ StrLess(keys[j], keys[i])
            \/ (keys[j] = keys[i] /\ j < i)})

\* sorted(keys-carrying list): the list s reordered by its keys
SortedByKeys(s, keys) ==
    [k \in 1..Len(s) |-> s[CHOOSE i \in 1..Len(s) : StableRank(keys, i) = k]]

\* sorted(list of str)
SortedStrings(s) == SortedByKeys(s, s)

-----------------------------------------------------------------------------
(* Python dicts. *)

\* d.get(k, default)
DictGet(d, k, default) == IF k \in DOMAIN d THEN d[k] ELSE default

\* d[k] = v
DictSet(d, k, v) == [x \in DOMAIN d \cup {k} |-> IF x = k THEN v ELSE d[x]]

\* {}
EmptyDict == [x \in {} |-> <<>>]

-----------------------------------------------------------------------------
(* normalize_tasks *)

\* line 51, right-hand side: sorted(task.get('downstream_task_ids', []))
SortedDownstream(task) == SortedStrings(DictGet(task, "downstream_task_ids", <<>>))

\* lines 50-51: the loop assigns the sorted list into every dict of the caller's list
MutatedTasks(ts) ==
    [i \in 1..Len(ts) |-> DictSet(ts[i], "downstream_task_ids", SortedDownstream(ts[i]))]

\* line 52 raises KeyError when a dict has no 'task_id' (the key function runs on
\* every element)
MissingTaskId(ts) == \E i \in 1..Len(ts) : "task_id" \notin DOMAIN ts[i]

\* the list returned as it came, not sorted
UnsortedByTaskId(ts) == ts

\* line 52: sorted(tasks, key=lambda x: x['task_id'])
SortedByTaskId(ts) == SortedByKeys(ts, [i \in 1..Len(ts) |-> ts[i]["task_id"]])

\* normalize_tasks(ts): what the caller's list holds afterwards, whether the call
\* raised, and the returned list
normalize_tasks(ts) ==
    LET m == MutatedTasks(ts)
    IN  [tasks  |-> m,
         raised |-> MissingTaskId(m),
         ret    |-> IF MissingTaskId(m) THEN <<>> ELSE SortedByTaskId(m)]

-----------------------------------------------------------------------------
(* create_dependency_graph *)

\* ' >> '.join(ds)
RECURSIVE Join(_)
Join(ds) ==
    IF Len(ds) = 0 THEN ""
    ELSE IF Len(ds) = 1 THEN ds[1]
    ELSE ds[1] \o " >> " \o Join(Tail(ds))

\* lines 56-58: the keys of the dict graph, in insertion order: a key keeps the
\* place of its first assignment
GraphKeys(ts) ==
    LET first == SelectSeq([i \in 1..Len(ts) |-> i],
                     LAMBDA i : \A j \in 1..(i - 1) : ts[j]["task_id"] # ts[i]["task_id"])
    IN  [k \in 1..Len(first) |-> ts[first[k]]["task_id"]]

\* lines 56-58: graph[task_id]: the value of the last assignment to the key
GraphValue(ts, task_id) ==
    LET last == CHOOSE i \in 1..Len(ts) :
                    /\ ts[i]["task_id"] = task_id
                    /\ \A j \in (i + 1)..Len(ts) : ts[j]["task_id"] # task_id
    IN  DictGet(ts[last], "downstream_task_ids", <<>>)

\* lines 62-65: one rendered line
RenderLine(task_id, downstream_tasks) ==
    IF downstream_tasks # <<>>
    THEN task_id \o " >> " \o Join(downstream_tasks)
    ELSE task_id \o " (no downstream tasks)"

\* create_dependency_graph(ts) for a list whose dicts all have a 'task_id'
create_dependency_graph(ts) ==
    LET keys == GraphKeys(ts)
    IN  [k \in 1..Len(keys) |-> RenderLine(keys[k], GraphValue(ts, keys[k]))]

-----------------------------------------------------------------------------
(* Inputs of the normalizer and the renderer. *)

\* task identifiers and downstream identifiers the inputs are built from
TaskIds == {"a", "ab"}
DownIds == {"ab", "b"}

\* all lists over S of length at most n
SeqUpTo(S, n) == UNION {[1..k -> S] : k \in 0..n}

\* task records as the fetch layer delivers them: an identifier, and a
\* downstream list that may be missing
TaskRecords ==
    {[task_id |-> i, downstream_task_ids |-> d] : i \in TaskIds, d \in SeqUpTo(DownIds, MaxDown)}
    \cup {[task_id |-> i] : i \in TaskIds}

\* the reorderings of a list
Perms(s) == {[i \in 1..Len(s) |-> s[p[i]]] : p \in Permutations(1..Len(s))}

\* values the variables of the other parts of the program hold while unused
Idle ==
    /\ graphs1 = EmptyDict /\ graphs2 = EmptyDict
    /\ report = [unique_to_env1 |-> <<>>, unique_to_env2 |-> <<>>, different_graphs |-> <<>>]
    /\ env = 0 /\ dag_files = <<>> /\ idx = 0 /\ dag_graphs = EmptyDict
    /\ graph_files = <<EmptyDict, EmptyDict>>
    /\ printed = {} /\ report_file = <<>>

InitNorm ==
    /\ pc = "start"
    /\ tasks \in SeqUpTo(TaskRecords, MaxTasks)
    /\ arg = tasks
    /\ ret = <<>>
    /\ graph = <<>>
    /\ Idle

\* tasks = normalize_tasks(tasks): the first call on the fetched list
CallNormalize ==
    /\ pc = "start"
    /\ LET r == normalize_tasks(tasks)
       IN  /\ tasks' = r.tasks
           /\ ret' = r.ret
           /\ pc' = IF r.raised THEN "raised" ELSE "normalized"
    /\ UNCHANGED <<arg, graph, graphs1, graphs2, report, env, dag_files, idx,
                   dag_graphs, graph_files, printed, report_file>>

\* normalize_tasks called on the list a previous call returned
CallNormalizeAgain ==
    /\ pc = "normalized"
    /\ LET r == normalize_tasks(ret)
       IN  /\ arg' = ret
           /\ tasks' = r.tasks
           /\ ret' = r.ret
           /\ pc' = IF r.raised THEN "raised" ELSE "renormalized"
    /\ UNCHANGED <<graph, graphs1, graphs2, report, env, dag_files, idx,
                   dag_graphs, graph_files, printed, report_file>>

\* dependency_graph = create_dependency_graph(tasks) on a normalized list
CallRender ==
    /\ pc \in {"normalized", "renormalized"}
    /\ graph' = create_dependency_graph(ret)
    /\ pc' = "rendered"
    /\ UNCHANGED <<arg, tasks, ret, graphs1, graphs2, report, env, dag_files, idx,
                   dag_graphs, graph_files, printed, report_file>>

NextNorm == CallNormalize \/ CallNormalizeAgain \/ CallRender

SpecNorm == InitNorm /\ [][NextNorm]_vars

-----------------------------------------------------------------------------
(* compare_dag_graphs and write_report *)

\* the elements of a list
Range(s) == {s[i] : i \in 1..Len(s)}

\* iteration over a Python set: each element once, in an order the language does
\* not fix
ListsOf(S) == {s \in [1..Cardinality(S) -> S] : Range(s) = S}

\* dags1 kept whole: the subtraction of dags2 left out
AllOfEnv1(graphs_a, graphs_b) == DOMAIN graphs_a

\* line 111: dags1 - dags2
UniqueToEnv1(graphs_a, graphs_b) == DOMAIN graphs_a \ DOMAIN graphs_b

\* dags2 kept whole: the subtraction of dags1 left out
AllOfEnv2(graphs_a, graphs_b) == DOMAIN graphs_b

\* line 112: dags2 - dags1
UniqueToEnv2(graphs_a, graphs_b) == DOMAIN graphs_b \ DOMAIN graphs_a

\* line 113: dags1 & dags2
CommonDags(graphs_a, graphs_b) == DOMAIN graphs_a \cap DOMAIN graphs_b

\* two graphs compared as sets of lines, their order ignored
LineSetsDiffer(g, h) == Range(g) # Range(h)

\* line 122: graphs1[dag] != graphs2[dag], on lists of strings
GraphsDiffer(g, h) == g # h

\* lines 121-126: the common dags whose graphs differ
DifferentGraphs(graphs_a, graphs_b) ==
    {dag \in CommonDags(graphs_a, graphs_b) : GraphsDiffer(graphs_a[dag], graphs_b[dag])}

\* compare_dag_graphs(graphs_a, graphs_b): the reports the call can return, one
\* for each iteration order of the three sets
compare_dag_graphs(graphs_a, graphs_b) ==
    {[unique_to_env1 |-> u1, unique_to_env2 |-> u2, different_graphs |-> df] :
        u1 \in ListsOf(UniqueToEnv1(graphs_a, graphs_b)),
        u2 \in ListsOf(UniqueToEnv2(graphs_a, graphs_b)),
        df \in ListsOf(DifferentGraphs(graphs_a, graphs_b))}

\* lines 132-143: the lines write_report writes
ReportLines(rep) ==
    <<"DAGs unique to environment 1:">>
    \o [i \in 1..Len(rep.unique_to_env1) |-> "- " \o rep.unique_to_env1[i]]
    \o <<"", "DAGs unique to environment 2:">>
    \o [i \in 1..Len(rep.unique_to_env2) |-> "- " \o rep.unique_to_env2[i]]
    \o <<"", "DAGs with different dependency graphs:">>
    \o [i \in 1..Len(rep.different_graphs) |-> "- " \o rep.different_graphs[i]]

\* a printed line: the environment whose call printed it (0: main itself), the source line of the
\* print, the dag id in the message ("" when the message names none)
Line(e, line, dag) == [env |-> e, line |-> line, dag |-> dag]

\* workflow identifiers
DagNames == <<"w1", "w2", "w3", "w4">>
DagIds == {DagNames[i] : i \in 1..MaxDags}

\* rendered graphs the collections given to the differ are built from: two hold
\* the same lines in a different order
GraphChoices ==
    {<<"a >> b", "b (no downstream tasks)">>,
     <<"b (no downstream tasks)", "a >> b">>,
     <<"a (no downstream tasks)", "b (no downstream tasks)">>}

\* graph collections: dicts from some workflow ids to rendered graphs
GraphCollections == UNION {[S -> GraphChoices] : S \in SUBSET DagIds}

InitDiff ==
    /\ pc = "compare"
    /\ graphs1 \in GraphCollections
    /\ graphs2 \in GraphCollections
    /\ report = [unique_to_env1 |-> <<>>, unique_to_env2 |-> <<>>, different_graphs |-> <<>>]
    /\ arg = <<>> /\ tasks = <<>> /\ ret = <<>> /\ graph = <<>>
    /\ env = 0 /\ dag_files = <<>> /\ idx = 0 /\ dag_graphs = EmptyDict
    /\ graph_files = <<EmptyDict, EmptyDict>>
    /\ printed = {} /\ report_file = <<>>

\* report = compare_dag_graphs(graphs_env1, graphs_env2)
CompareDagGraphs ==
    /\ pc = "compare"
    /\ report' \in compare_dag_graphs(graphs1, graphs2)
    /\ printed' = printed \cup {Line(0, 123, dag) : dag \in DifferentGraphs(graphs1, graphs2)}
    /\ pc' = "compared"
    /\ UNCHANGED <<arg, tasks, ret, graph, graphs1, graphs2, env, dag_files, idx,
                   dag_graphs, graph_files, report_file>>

\* write_report(report)
WriteReport ==
    /\ pc = "compared"
    /\ report_file' = ReportLines(report)
    /\ printed' = printed \cup {Line(0, 145, "")}
    /\ pc' = "done"
    /\ UNCHANGED <<arg, tasks, ret, graph, graphs1, graphs2, report, env, dag_files,
                   idx, dag_graphs, graph_files>>

NextDiff == CompareDagGraphs \/ WriteReport

SpecDiff == InitDiff /\ [][NextDiff]_vars

-----------------------------------------------------------------------------
(* main: generate_dependency_graphs for each environment, then the comparison. *)

\* what GET /dags/{dag_id}/tasks can deliver for a workflow: no task, two
\* well-formed task lists of different structure, a list with a record that has
\* no 'task_id'
TaskResponses ==
    {<<>>,
     <<[task_id |-> "b", downstream_task_ids |-> <<>>],
       [task_id |-> "a", downstream_task_ids |-> <<"b">>]>>,
     <<[task_id |-> "a"], [task_id |-> "b"]>>,
     <<[task_id |-> "a", downstream_task_ids |-> <<"b">>],
       [downstream_task_ids |-> <<>>]>>}

\* the workflows the two environments serve
ServedDagIds == {DagNames[i] : i \in 1..MaxListed}

\* the dag lists GET /dags can deliver: distinct ids in any order
DagListings ==
    {l \in SeqUpTo(ServedDagIds, MaxListed) : \A i, j \in 1..Len(l) : i # j => l[i] # l[j]}

\* the handler returning what the loop had collected
ExceptReturnsCollected(collected) == collected

\* lines 96-98: except Exception: ... return {}
ExceptReturn(collected) == EmptyDict

\* line 154/156: the value generate_dependency_graphs returns is bound to
\* graphs_env1 or graphs_env2, and main goes on
Returned(value) ==
    /\ graphs1' = IF env = 1 THEN value ELSE graphs1
    /\ graphs2' = IF env = 2 THEN value ELSE graphs2
    /\ env' = IF env = 1 THEN 2 ELSE env
    /\ pc' = IF env = 1 THEN "get_dags" ELSE "compare"
    /\ dag_files' = <<>>
    /\ idx' = 0
    /\ dag_graphs' = EmptyDict

Init ==
    /\ pc = "get_dags"
    /\ env = 1
    /\ graphs1 = EmptyDict /\ graphs2 = EmptyDict
    /\ report = [unique_to_env1 |-> <<>>, unique_to_env2 |-> <<>>, different_graphs |-> <<>>]
    /\ arg = <<>> /\ tasks = <<>> /\ ret = <<>> /\ graph = <<>>
    /\ dag_files = <<>> /\ idx = 0 /\ dag_graphs = EmptyDict
    /\ graph_files = <<EmptyDict, EmptyDict>>
    /\ printed = {} /\ report_file = <<>>

\* line 72, get_all_serialized_dags succeeding: one file per dag of the listing
GetAllSerializedDags ==
    /\ pc = "get_dags"
    /\ \E listing \in DagListings : dag_files' = listing
    /\ printed' = printed \cup {Line(env, 27, "")}
    /\ pc' = "loop"
    /\ idx' = 0
    /\ dag_graphs' = EmptyDict
    /\ UNCHANGED <<arg, tasks, ret, graph, graphs1, graphs2, report, env,
                   graph_files, report_file>>

\* line 72, get_all_serialized_dags failing on a request (lines 30-32): it prints
\* the error and returns []
GetAllSerializedDagsFails ==
    /\ pc = "get_dags"
    /\ dag_files' = <<>>
    /\ printed' = printed \cup {Line(env, 31, "")}
    /\ pc' = "loop"
    /\ idx' = 0
    /\ dag_graphs' = EmptyDict
    /\ UNCHANGED <<arg, tasks, ret, graph, graphs1, graphs2, report, env,
                   graph_files, report_file>>

\* one iteration of the loop (lines 76-83) in which get_dag_tasks gets an HTTP
\* error: it prints the error and returns [], and the loop prints the warning
\* and continues
IterationFetchFails ==
    /\ pc = "loop"
    /\ idx < Len(dag_files)
    /\ LET dag_id == dag_files[idx + 1]
       IN  printed' = printed \cup {Line(env, 45, dag_id), Line(env, 82, dag_id)}
    /\ idx' = idx + 1
    /\ UNCHANGED <<pc, arg, tasks, ret, graph, graphs1, graphs2, report, env,
                   dag_files, dag_graphs, graph_files, report_file>>

\* one iteration of the loop (lines 76-98) in which get_dag_tasks gets a response
IterationFetched ==
    /\ pc = "loop"
    /\ idx < Len(dag_files)
    /\ \E fetched \in TaskResponses :
        LET dag_id == dag_files[idx + 1]
            r == normalize_tasks(fetched)
            dependency_graph == create_dependency_graph(r.ret)
        IN  IF fetched = <<>>
            THEN \* lines 41-42 and 81-83
                 /\ printed' = printed \cup {Line(env, 42, dag_id), Line(env, 82, dag_id)}
                 /\ idx' = idx + 1
                 /\ UNCHANGED <<pc, graphs1, graphs2, env, dag_files, dag_graphs, graph_files>>
            ELSE IF r.raised
            THEN \* line 84 raises, lines 96-98
                 /\ printed' = printed \cup {Line(env, 97, "")}
                 /\ Returned(ExceptReturn(dag_graphs))
                 /\ UNCHANGED graph_files
            ELSE IF dependency_graph = <<>>
            THEN \* lines 86-88
                 /\ printed' = printed \cup {Line(env, 87, dag_id)}
                 /\ idx' = idx + 1
                 /\ UNCHANGED <<pc, graphs1, graphs2, env, dag_files, dag_graphs, graph_files>>
            ELSE \* lines 89-93
                 /\ graph_files' = [graph_files EXCEPT
                                       ![env] = DictSet(graph_files[env], dag_id, dependency_graph)]
                 /\ dag_graphs' = DictSet(dag_graphs, dag_id, dependency_graph)
                 /\ idx' = idx + 1
                 /\ UNCHANGED <<pc, graphs1, graphs2, env, dag_files, printed>>
    /\ UNCHANGED <<arg, tasks, ret, graph, report, report_file>>

\* lines 94-95: the loop is over, the dict is returned
ReturnDagGraphs ==
    /\ pc = "loop"
    /\ idx = Len(dag_files)
    /\ printed' = printed \cup {Line(env, 94, "")}
    /\ Returned(dag_graphs)
    /\ UNCHANGED <<arg, tasks, ret, graph, report, graph_files, report_file>>

Next ==
    \/ GetAllSerializedDags
    \/ GetAllSerializedDagsFails
    \/ IterationFetchFails
    \/ IterationFetched
    \/ ReturnDagGraphs
    \/ CompareDagGraphs
    \/ WriteReport

Spec == Init /\ [][Next]_vars

-----------------------------------------------------------------------------
(* Properties of the normalizer and the renderer, under SpecNorm. *)

\* the identifiers of a task list are pairwise distinct
DistinctTaskIds(ts) ==
    \A i, j \in 1..Len(ts) : i # j => ts[i]["task_id"] # ts[j]["task_id"]

\* a list of strings is in ascending order
Ascending(keys) == \A i, j \in 1..Len(keys) : i < j => ~StrLess(keys[j], keys[i])

\* C3 as stated: for every task list T and every permutation P of T,
\* normalize_tasks(P) returns the same ordered sequence as normalize_tasks(T).
C3_PermutationInvariant_AnyInput ==
    pc = "normalized" =>
        \A P \in Perms(arg) : ~normalize_tasks(P).raised /\ normalize_tasks(P).ret = ret

\* C3 amended: for every task list T whose task identifiers are pairwise distinct
\* and every permutation P of T, normalize_tasks(P) returns the same ordered
\* sequence as normalize_tasks(T).
C3_PermutationInvariant_DistinctIds ==
    (pc = "normalized" /\ DistinctTaskIds(arg)) =>
        \A P \in Perms(arg) : ~normalize_tasks(P).raised /\ normalize_tasks(P).ret = ret

\* C3 witness: a list of distinct identifiers given out of order, with an unsorted
\* downstream list, has been normalized.
C3_Witness ==
    /\ pc = "normalized"
    /\ Len(arg) >= 2
    /\ DistinctTaskIds(arg)
    /\ StrLess(arg[2]["task_id"], arg[1]["task_id"])
    /\ "downstream_task_ids" \in DOMAIN arg[1]
    /\ ~Ascending(arg[1]["downstream_task_ids"])

\* C4: after normalize_tasks(T) the caller's list T is what it was when the call
\* was made: same order, and every record with the same identifier and the same
\* downstream field (present or not).
C4_InputUnchanged ==
    pc \in {"normalized", "renormalized"} => tasks = arg

\* C5: normalizing the list a normalization returned gives that list back, and
\* the list is in ascending task-identifier order with every downstream list in
\* ascending order.
C5_Idempotent ==
    pc = "renormalized" =>
        /\ ret = arg
        /\ Ascending([i \in 1..Len(ret) |-> ret[i]["task_id"]])
        /\ \A i \in 1..Len(ret) :
              /\ "downstream_task_ids" \in DOMAIN ret[i]
              /\ Ascending(ret[i]["downstream_task_ids"])

\* C5 witness: a list of at least two records, two of them with the same
\* identifier and different downstream lists, has been normalized twice.
C5_Witness ==
    /\ pc = "renormalized"
    /\ Len(ret) >= 2
    /\ ret[1]["task_id"] = ret[2]["task_id"]
    /\ ret[1]["downstream_task_ids"] # ret[2]["downstream_task_ids"]
    /\ Len(ret[1]["downstream_task_ids"]) >= 2

\* the line the data model gives a task: its identifier, then its downstream
\* identifiers joined by " >> ", or the sentinel
ClaimedLine(task) ==
    IF task["downstream_task_ids"] = <<>>
    THEN task["task_id"] \o " (no downstream tasks)"
    ELSE task["task_id"] \o " >> " \o Join(task["downstream_task_ids"])

\* C6: create_dependency_graph(S) returns one string per task of S, in the order
\* of S, the i-th being the line of the i-th task; also when two records of S
\* carry the same identifier.
C6_OneLinePerTask ==
    pc = "rendered" =>
        /\ Len(graph) = Len(ret)
        /\ \A i \in 1..Len(ret) : i <= Len(graph) /\ graph[i] = ClaimedLine(ret[i])

\* C7: every task whose downstream collection is missing or empty is rendered as
\* "{task_id} (no downstream tasks)", and no rendered line is a task identifier
\* followed by " >> " and nothing.
C7_SentinelForEveryEmptyTask ==
    pc = "rendered" =>
        /\ \A i \in 1..Len(arg) :
              DictGet(arg[i], "downstream_task_ids", <<>>) = <<>> =>
                  \E k \in 1..Len(graph) :
                      graph[k] = arg[i]["task_id"] \o " (no downstream tasks)"
        /\ \A k \in 1..Len(graph) : \A t \in TaskIds : graph[k] # t \o " >> "

-----------------------------------------------------------------------------
(* Properties of the differ, under SpecDiff. *)

\* a list holds no element twice
NoRepeat(s) == \A i, j \in 1..Len(s) : i # j => s[i] # s[j]

\* two lists of lines differ as sequences: in length, or at some position
NotSequenceEqual(g, h) ==
    Len(g) # Len(h) \/ \E i \in 1..Len(g) : g[i] # h[i]

\* C1: the three lists of the report are pairwise disjoint, hold no id twice and
\* hold only keys of the two collections, so every id of keys(L) \cup keys(R) is
\* in exactly one list or in none.
C1_ReportPartition ==
    pc \in {"compared", "done"} =>
        LET u1 == report.unique_to_env1
            u2 == report.unique_to_env2
            df == report.different_graphs
        IN  /\ NoRepeat(u1) /\ NoRepeat(u2) /\ NoRepeat(df)
            /\ Range(u1) \cap Range(u2) = {}
            /\ Range(u1) \cap Range(df) = {}
            /\ Range(u2) \cap Range(df) = {}
            /\ Range(u1) \cup Range(u2) \cup Range(df) \subseteq DOMAIN graphs1 \cup DOMAIN graphs2
            /\ \A dag \in DOMAIN graphs1 \cup DOMAIN graphs2 :
                  Cardinality({k \in {"unique_to_env1", "unique_to_env2", "different_graphs"} :
                                  dag \in Range(report[k])}) <= 1

\* C1 witness: a comparison whose report lists one workflow as unique to the
\* first collection and a common workflow as differing.
C1_Witness ==
    /\ pc = "compared"
    /\ report.unique_to_env1 # <<>>
    /\ DOMAIN graphs2 # {}
    /\ \E dag \in DOMAIN graphs1 \cap DOMAIN graphs2 : dag \in Range(report.different_graphs)

\* C2: an id is in different_graphs exactly when it is a key of both collections
\* and the two graphs are not equal as sequences; a common workflow with
\* sequence-equal graphs is in no list of the report.
C2_DifferentIffNotSequenceEqual ==
    pc \in {"compared", "done"} =>
        \A dag \in DagIds :
            /\ dag \in Range(report.different_graphs) <=>
                  /\ dag \in DOMAIN graphs1 \cap DOMAIN graphs2
                  /\ NotSequenceEqual(graphs1[dag], graphs2[dag])
            /\ (/\ dag \in DOMAIN graphs1 \cap DOMAIN graphs2
                /\ ~NotSequenceEqual(graphs1[dag], graphs2[dag]))
               => dag \notin Range(report.unique_to_env1) \cup Range(report.unique_to_env2)
                             \cup Range(report.different_graphs)

\* C2 witness: a workflow whose two graphs hold the same lines in a different
\* order is reported as differing, next to a common workflow with equal graphs.
C2_Witness ==
    /\ pc = "compared"
    /\ \E dag \in DOMAIN graphs1 \cap DOMAIN graphs2 :
          /\ graphs1[dag] # graphs2[dag]
          /\ Range(graphs1[dag]) = Range(graphs2[dag])
          /\ dag \in Range(report.different_graphs)
    /\ \E dag \in DOMAIN graphs1 \cap DOMAIN graphs2 : graphs1[dag] = graphs2[dag]

\* C9: against every report of the call with the arguments exchanged,
\* unique_to_env1 holds the ids of its unique_to_env2, unique_to_env2 those of
\* its unique_to_env1, and different_graphs the same ids.
C9_SwapSymmetry ==
    pc = "compared" =>
        \A swapped \in compare_dag_graphs(graphs2, graphs1) :
            /\ Range(report.unique_to_env1) = Range(swapped.unique_to_env2)
            /\ Range(report.unique_to_env2) = Range(swapped.unique_to_env1)
            /\ Range(report.different_graphs) = Range(swapped.different_graphs)

\* C9 witness: a comparison of two collections that share a workflow and each
\* hold one the other lacks.
C9_Witness ==
    /\ pc = "compared"
    /\ DOMAIN graphs1 \cap DOMAIN graphs2 # {}
    /\ report.unique_to_env1 # <<>>
    /\ report.unique_to_env2 # <<>>

-----------------------------------------------------------------------------
(* Properties of generate_dependency_graphs and main, under Spec. *)

\* generate_dependency_graphs has returned for environment e
HasReturned(e) == e < env \/ pc \in {"compare", "compared", "done"}

\* the collection main holds for environment e
GraphsOf(e) == IF e = 1 THEN graphs1 ELSE graphs2

\* C8: a failed task fetch is told apart from a workflow without tasks: a
\* workflow whose fetch failed in one environment is never reported, for that
\* reason alone, as unique to the other environment.
C8_FetchFailureNotReportedAsMissing ==
    pc = "done" =>
        \A dag \in DagIds :
            /\ Line(1, 45, dag) \in printed => dag \notin Range(report.unique_to_env2)
            /\ Line(2, 45, dag) \in printed => dag \notin Range(report.unique_to_env1)

\* C10 as stated: a failure while processing one workflow is contained to it:
\* every graph computed (and written) for the environment is in the returned
\* collection, which is not empty when a workflow was processed successfully.
C10_FailureContained ==
    \A e \in {1, 2} :
        HasReturned(e) =>
            \A dag \in DOMAIN graph_files[e] :
                /\ dag \in DOMAIN GraphsOf(e)
                /\ GraphsOf(e)[dag] = graph_files[e][dag]

\* C10 amended: a failure while processing one workflow is not contained: when
\* normalization of a workflow raises, generate_dependency_graphs returns the
\* empty collection, whatever it had computed before; the graphs computed are
\* all in the returned collection only when no workflow's processing raised.
C10_FailureEmptiesCollection ==
    \A e \in {1, 2} :
        HasReturned(e) =>
            IF Line(e, 97, "") \in printed
            THEN DOMAIN GraphsOf(e) = {}
            ELSE GraphsOf(e) = graph_files[e]

\* C10 witness: a workflow was processed and its graph written, a later
\* workflow's normalization raised, and the call returned the empty collection.
C10_Witness ==
    /\ HasReturned(1)
    /\ Line(1, 97, "") \in printed
    /\ DOMAIN graph_files[1] # {}
    /\ DOMAIN graphs1 = {}

====
